---- MODULE Spec2Model ----
(***************************************************************************)
(* Model of ppt_to_pdf.py: FileConverter.process_files and the helpers it  *)
(* drives (task identification, COM application lifecycle, per-file copy   *)
(* and conversion, progress and result display).                           *)
(*                                                                         *)
(* External collaborators (the file system, comtypes, shutil) are the      *)
(* environment: every call into them is one step whose outcome is chosen   *)
(* nondeterministically among success and the exceptions that call raises. *)
(***************************************************************************)
EXTENDS Integers, Sequences, FiniteSets, TLC

\* ------------------------------------------------------------------ bounds

\* Longest directory listing drawn in Init.
MaxFiles == 4
\* Number of process_files calls made on one FileConverter.
MaxRuns == 2

\* ------------------------------------------------------------------ Config

WD_FORMAT_PDF == 17
PPT_FORMAT_PDF == 32
SUPPORTED_EXTENSIONS == {".ppt", ".pptx", ".doc", ".docx"}
PDF_EXTENSION == ".pdf"

\* ------------------------------------------------------------------ paths

\* A file name, already split the way pathlib splits it: name = stem + suffix.
FileName(stem, suffix) == [stem |-> stem, suffix |-> suffix]
NoName == FileName("", "")

\* A directory entry of the input directory.
RegularFile(stem, suffix) == [name |-> FileName(stem, suffix), is_file |-> TRUE]
SubDirectory(stem, suffix) == [name |-> FileName(stem, suffix), is_file |-> FALSE]

\* str.lower() on the suffixes that occur.
Lower(s) ==
    CASE s = ".PPT" -> ".ppt"
      [] s = ".PPTX" -> ".pptx"
      [] s = ".DOC" -> ".doc"
      [] s = ".DOCX" -> ".docx"
      [] s = ".PDF" -> ".pdf"
      [] s = ".TXT" -> ".txt"
      [] OTHER -> s

\* file_path.stem + PDF_EXTENSION
PdfName(name) == FileName(name.stem, PDF_EXTENSION)

\* The output file a task writes (lines 279 and 284-286).
OutputOf(task) == IF task.type = "copy" THEN task.filename ELSE PdfName(task.filename)

\* ------------------------------------------------------------------ inputs

\* The input directory of the executed runs holds some of these entries, in
\* name order (the order an NTFS directory is listed in).
RunUniverse ==
    << RegularFile("a", ".pptx"), RegularFile("b", ".docx"),
       RegularFile("c", ".pdf"), RegularFile("d", ".pdf") >>

\* Entries the planner is applied to.
PlanUniverse ==
    { RegularFile("a", ".ppt"), RegularFile("a", ".pptx"), RegularFile("a", ".docx"),
      RegularFile("a", ".pdf"), RegularFile("b", ".DOC"), RegularFile("n", ".txt"),
      SubDirectory("s", ".pptx"), SubDirectory("s", ".pdf") }

Range(s) == { s[i] : i \in 1..Len(s) }

NamesOf(U) == { e.name : e \in U } \cup { PdfName(e.name) : e \in U }
AllNames == NamesOf(Range(RunUniverse)) \cup NamesOf(PlanUniverse)

\* Sequences of distinct entries of U, at most n long: the listings
\* input_dir.iterdir() can yield, in any order.
RECURSIVE Listings(_, _)
Listings(U, n) ==
    IF n = 0 \/ U = {} THEN { <<>> }
    ELSE { <<>> } \cup UNION { { <<e>> \o l : l \in Listings(U \ {e}, n - 1) } : e \in U }

\* The entries of seq at the positions in keep, in order.
RECURSIVE Pick(_, _, _)
Pick(seq, keep, i) ==
    IF i > Len(seq) THEN <<>>
    ELSE (IF i \in keep THEN << seq[i] >> ELSE <<>>) \o Pick(seq, keep, i + 1)

Reverse(seq) == [i \in 1..Len(seq) |-> seq[Len(seq) + 1 - i]]

\* The listings of at most n entries of seq, in its order or in the reverse.
OrderedListings(seq, n) ==
    LET kept == { keep \in SUBSET (1..Len(seq)) : Cardinality(keep) <= n }
    IN  { Pick(seq, keep, 1) : keep \in kept }
        \cup { Reverse(Pick(seq, keep, 1)) : keep \in kept }

\* Content of a path of the output directory.
Absent == [kind |-> "absent", src |-> NoName]
PreExisting == [kind |-> "pre", src |-> NoName]
Written(kind, src) == [kind |-> kind, src |-> src]

Exists(dir, name) == dir[name].kind # "absent"

\* ------------------------------------------------------------------ state

VARIABLES
    input_dir,      \* entries of the input directory, in iterdir() order
    output_dir,     \* content of every path of the output directory
    same_dir,       \* input_dir == output_dir after resolve()
    input_exists,   \* the input path exists and is a directory
    output_exists,  \* the output directory exists
    run,            \* number of the current process_files call
    pc,             \* position of the call in the code
    tasks,          \* the list _identify_tasks returned
    apps,           \* self.apps: items (name, handle) in insertion order
    backends,       \* every application object CreateObject returned
    document,       \* the presentation / doc opened by _convert_file
    index,          \* position of the task loop (1-based)
    success_count,  \* success_count of _process_tasks_with_progress
    progress,       \* number of progress.update(advance=1) calls
    results,        \* return values of _copy_file / _convert_file, in order
    summary,        \* what _display_results displayed
    pending,        \* exception travelling through the finally clause
    raised,         \* exception process_files raised to its caller
    cleanup_queue,  \* items of self.apps still to visit in the cleanup loop
    calls,          \* calls made into comtypes and shutil during this run
    log             \* self.logger entries of this run

fs_vars == <<input_dir, output_dir, same_dir, input_exists, output_exists>>
vars == <<input_dir, output_dir, same_dir, input_exists, output_exists, run, pc,
          tasks, apps, backends, document, index, success_count, progress, results,
          summary, pending, raised, cleanup_queue, calls, log>>

PowerPoint == "PowerPoint.Application"
Word == "Word.Application"
AppNames == {PowerPoint, Word}

NoException == "none"
NoDocument == [backend |-> 0, name |-> NoName]
NoSummary == [shown |-> FALSE, total |-> 0, succeeded |-> 0, failed |-> 0]

Task(type, filename) == [type |-> type, filename |-> filename]
LogEntry(level, event, name, app) ==
    [level |-> level, event |-> event, name |-> name, app |-> app]
Call(op, handle, name, code, outcome) ==
    [op |-> op, handle |-> handle, name |-> name, code |-> code, outcome |-> outcome]

\* dict.get(name): the handle stored under name, 0 (None) when there is none.
Get(dict, name) ==
    IF \E i \in 1..Len(dict) : dict[i].name = name
    THEN dict[CHOOSE i \in 1..Len(dict) : dict[i].name = name].handle
    ELSE 0

\* dict[name] = handle: replaces the value in place, or appends a new item.
Set(dict, name, handle) ==
    IF \E i \in 1..Len(dict) : dict[i].name = name
    THEN [i \in 1..Len(dict) |->
            IF dict[i].name = name THEN [name |-> name, handle |-> handle] ELSE dict[i]]
    ELSE Append(dict, [name |-> name, handle |-> handle])

\* ------------------------------------------------------------------ environment

\* What a failing call raises. comtypes.client.CreateObject fails with an
\* OSError (unknown ProgID) or a COMError (the server does not start); a
\* property put on the application object with a COMError or an
\* AttributeError; a method of a COM object with the COMError that ctypes
\* raises for a failed HRESULT; shutil.copy2 with an OSError, or with
\* shutil.SameFileError (a shutil.Error) when source and target are one file.
CreateObjectErrors == {"OSError", "COMError"}
PropertyErrors == {"COMError", "AttributeError"}
MethodErrors == {"COMError"}
CopyOutcomes(same_file) == IF same_file THEN {"shutil.Error"} ELSE {"ok", "OSError"}

\* ------------------------------------------------------------------ except clauses

\* Line 135: except (AttributeError, comtypes.COMError) around WindowState = 2.
MinimizeCaught(exc) == exc \in {"AttributeError", "COMError"}

\* Line 143: Visible = False is not inside any try of its own.
HideCaught(exc) == FALSE

\* Variant of QuitCaught: the loop over self.apps has no except clause.
QuitCaughtNothing(exc) == FALSE

\* Line 157: except comtypes.COMError around app.Quit().
QuitCaught(exc) == exc \in {"COMError"}

\* Line 168: except (shutil.Error, IOError); IOError is OSError.
CopyCaught(exc) == exc \in {"shutil.Error", "OSError"}

\* Variant of ConvertCaught: only the converter's own RuntimeError is caught.
ConvertCaughtRuntimeErrorOnly(exc) == exc \in {"RuntimeError"}

\* Variant of ConvertCaught: the except clause does not name RuntimeError.
ConvertCaughtWithoutRuntimeError(exc) == exc \in {"OSError", "COMError"}

\* Line 202: except (OSError, comtypes.COMError, RuntimeError).
ConvertCaught(exc) == exc \in {"OSError", "COMError", "RuntimeError"}

\* ------------------------------------------------------------------ _identify_tasks

\* Variant of TasksFor: a convertible file is planned whether or not its PDF
\* exists.
TasksForNoExistsCheck(entry, input_is_output, out) ==
    LET file_ext == Lower(entry.name.suffix)
    IN  IF ~entry.is_file THEN <<>>
        ELSE IF file_ext = PDF_EXTENSION
            THEN IF ~input_is_output THEN << Task("copy", entry.name) >> ELSE <<>>
        ELSE IF file_ext \in SUPPORTED_EXTENSIONS
            THEN << Task("convert", entry.name) >>
        ELSE <<>>

\* Variant of TasksFor: a PDF whose copy exists in the output directory is
\* skipped like a convertible file.
TasksForSkipExistingPdf(entry, input_is_output, out) ==
    LET file_ext == Lower(entry.name.suffix)
    IN  IF ~entry.is_file THEN <<>>
        ELSE IF file_ext = PDF_EXTENSION
            THEN IF ~input_is_output /\ ~Exists(out, entry.name)
                 THEN << Task("copy", entry.name) >> ELSE <<>>
        ELSE IF file_ext \in SUPPORTED_EXTENSIONS
            THEN IF ~Exists(out, PdfName(entry.name))
                 THEN << Task("convert", entry.name) >>
                 ELSE <<>>
        ELSE <<>>

\* Variant of TasksFor: the suffix is compared without lower().
TasksForCaseSensitive(entry, input_is_output, out) ==
    LET file_ext == entry.name.suffix
    IN  IF ~entry.is_file THEN <<>>
        ELSE IF file_ext = PDF_EXTENSION
            THEN IF ~input_is_output THEN << Task("copy", entry.name) >> ELSE <<>>
        ELSE IF file_ext \in SUPPORTED_EXTENSIONS
            THEN IF ~Exists(out, PdfName(entry.name))
                 THEN << Task("convert", entry.name) >>
                 ELSE <<>>
        ELSE <<>>

\* Variant of TasksFor: a PDF is copied whether or not the two directories are
\* the same.
TasksForCopyAlways(entry, input_is_output, out) ==
    LET file_ext == Lower(entry.name.suffix)
    IN  IF ~entry.is_file THEN <<>>
        ELSE IF file_ext = PDF_EXTENSION
            THEN << Task("copy", entry.name) >>
        ELSE IF file_ext \in SUPPORTED_EXTENSIONS
            THEN IF ~Exists(out, PdfName(entry.name))
                 THEN << Task("convert", entry.name) >>
                 ELSE <<>>
        ELSE <<>>

\* The tasks one iteration of the loop appends (lines 88-103).
TasksFor(entry, input_is_output, out) ==
    LET file_ext == Lower(entry.name.suffix)
        filename == entry.name
    IN  IF ~entry.is_file THEN <<>>
        ELSE IF file_ext = PDF_EXTENSION
            THEN IF ~input_is_output THEN << Task("copy", filename) >> ELSE <<>>
        ELSE IF file_ext \in SUPPORTED_EXTENSIONS
            THEN IF ~Exists(out, PdfName(filename))
                 THEN << Task("convert", filename) >>
                 ELSE <<>>
        ELSE <<>>

\* The logger entries one iteration of the loop writes (lines 104-106).
SkipsFor(entry, out) ==
    LET file_ext == Lower(entry.name.suffix)
    IN  IF entry.is_file /\ file_ext # PDF_EXTENSION
           /\ file_ext \in SUPPORTED_EXTENSIONS /\ Exists(out, PdfName(entry.name))
        THEN << LogEntry("info", "skip", entry.name, "") >>
        ELSE <<>>

RECURSIVE identify_tasks(_, _, _)
identify_tasks(listing, input_is_output, out) ==
    IF listing = <<>> THEN <<>>
    ELSE TasksFor(Head(listing), input_is_output, out)
         \o identify_tasks(Tail(listing), input_is_output, out)

RECURSIVE identify_log(_, _)
identify_log(listing, out) ==
    IF listing = <<>> THEN <<>>
    ELSE SkipsFor(Head(listing), out) \o identify_log(Tail(listing), out)

\* ------------------------------------------------------------------ Init

\* The file systems a run can start on: a missing input directory; input and
\* output the same directory; or distinct directories, the output holding any
\* of the PDFs the listing could produce. The default output directory
\* (input_dir / 'converted_pdf') is one more sub-directory entry of the
\* listing, which the planner passes over like any other.
InitFileSystem(listings) ==
    \/ /\ input_exists = FALSE
       /\ input_dir = <<>>
       /\ same_dir = FALSE
       /\ output_exists = FALSE
       /\ output_dir = [n \in AllNames |-> Absent]
    \/ /\ input_exists = TRUE
       /\ input_dir \in listings
       /\ \/ /\ same_dir = TRUE
             /\ output_exists = TRUE
             /\ output_dir = [n \in AllNames |->
                    IF n \in { e.name : e \in Range(input_dir) }
                    THEN PreExisting ELSE Absent]
          \/ /\ same_dir = FALSE
             /\ \E present \in SUBSET { PdfName(e.name) : e \in Range(input_dir) } :
                    /\ output_dir = [n \in AllNames |->
                           IF n \in present THEN PreExisting ELSE Absent]
                    /\ output_exists \in (IF present = {} THEN BOOLEAN ELSE {TRUE})

\* FileConverter.__init__ (lines 49-53): an empty registry, nothing run yet.
InitConverter ==
    /\ run = 1
    /\ pc = "idle"
    /\ tasks = <<>>
    /\ apps = <<>>
    /\ backends = <<>>
    /\ document = NoDocument
    /\ index = 0
    /\ success_count = 0
    /\ progress = 0
    /\ results = <<>>
    /\ summary = NoSummary
    /\ pending = NoException
    /\ raised = NoException
    /\ cleanup_queue = <<>>
    /\ calls = <<>>
    /\ log = <<>>

Init == InitFileSystem(OrderedListings(RunUniverse, MaxFiles)) /\ InitConverter

InitPlan == InitFileSystem(Listings(PlanUniverse, MaxFiles)) /\ InitConverter

\* ------------------------------------------------------------------ process_files

\* A process_files that creates the output directory before it validates the
\* input directory.
process_files_mkdir_first ==
    /\ pc = "idle"
    /\ output_exists' = TRUE
    /\ IF ~input_exists
       THEN /\ pc' = "raised"
            /\ raised' = "ValueError"
       ELSE /\ pc' = "planning"
            /\ UNCHANGED raised
    /\ UNCHANGED <<input_dir, output_dir, same_dir, input_exists, run, tasks, apps,
                   backends, document, index, success_count, progress, results,
                   summary, pending, cleanup_queue, calls, log>>

\* Lines 208-221: validate the input directory, create the output directory.
process_files ==
    /\ pc = "idle"
    /\ IF ~input_exists
       THEN /\ pc' = "raised"
            /\ raised' = "ValueError"
            /\ UNCHANGED output_exists
       ELSE /\ pc' = "planning"
            /\ output_exists' = TRUE
            /\ UNCHANGED raised
    /\ UNCHANGED <<input_dir, output_dir, same_dir, input_exists, run, tasks, apps,
                   backends, document, index, success_count, progress, results,
                   summary, pending, cleanup_queue, calls, log>>

\* A process_files without the early return on an empty task list.
IdentifyTasksWithoutEarlyReturn ==
    /\ pc = "planning"
    /\ tasks' = identify_tasks(input_dir, same_dir, output_dir)
    /\ pc' = "init_powerpoint"
    /\ log' = log \o identify_log(input_dir, output_dir)
    /\ UNCHANGED <<fs_vars, run, apps, backends, document, index, success_count,
                   progress, results, summary, pending, raised, cleanup_queue, calls>>

\* Lines 224-230: identify the tasks; return when there are none.
IdentifyTasks ==
    /\ pc = "planning"
    /\ LET found == identify_tasks(input_dir, same_dir, output_dir)
           skips == identify_log(input_dir, output_dir)
       IN  /\ tasks' = found
           /\ IF found = <<>>
              THEN /\ pc' = "nowork"
                   /\ log' = log \o skips \o << LogEntry("info", "nowork", NoName, "") >>
              ELSE /\ pc' = "init_powerpoint"
                   /\ log' = log \o skips
    /\ UNCHANGED <<fs_vars, run, apps, backends, document, index, success_count,
                   progress, results, summary, pending, raised, cleanup_queue, calls>>

\* ------------------------------------------------------------------ _com_applications

\* Variant of Needs: any convert task asks for the application, whatever its
\* suffix.
NeedsForAnyConvert(task_list, suffixes) ==
    \E i \in 1..Len(task_list) : task_list[i].type = "convert"

\* task[1].lower().endswith(suffixes) over the convert tasks (lines 116-123).
Needs(task_list, suffixes) ==
    \E i \in 1..Len(task_list) :
        /\ task_list[i].type = "convert"
        /\ Lower(task_list[i].filename.suffix) \in suffixes

needs_ppt(task_list) == Needs(task_list, {".ppt", ".pptx"})
needs_word(task_list) == Needs(task_list, {".doc", ".docx"})

NewBackend(app) == [app |-> app, run |-> run, running |-> TRUE, quits |-> 0, open |-> {}]

\* Variant of EnterCleanup: the cleanup call follows the yield instead of
\* standing in a finally clause, so an exception skips it.
EnterCleanupWithoutFinally(exc, registry) ==
    /\ pending' = exc
    /\ pc' = "cleanup"
    /\ cleanup_queue' = IF exc = NoException THEN registry ELSE <<>>

\* An exception leaves the with block or the generator: the finally clause
\* (line 147) runs _cleanup_com_applications over self.apps.items().
EnterCleanup(exc, registry) ==
    /\ pending' = exc
    /\ pc' = "cleanup"
    /\ cleanup_queue' = registry

\* Lines 125-129: CreateObject('PowerPoint.Application') when needed.
InitPowerPoint ==
    /\ pc = "init_powerpoint"
    /\ IF ~needs_ppt(tasks)
       THEN /\ pc' = "init_word"
            /\ UNCHANGED <<apps, backends, calls, pending, cleanup_queue>>
       ELSE \E outcome \in {"ok"} \cup CreateObjectErrors :
            IF outcome = "ok"
            THEN /\ backends' = Append(backends, NewBackend(PowerPoint))
                 /\ apps' = Set(apps, PowerPoint, Len(backends) + 1)
                 /\ calls' = Append(calls,
                        Call("CreateObject", Len(backends) + 1, NoName, 0, outcome))
                 /\ pc' = "minimize"
                 /\ UNCHANGED <<pending, cleanup_queue>>
            ELSE /\ calls' = Append(calls, Call("CreateObject", 0, NoName, 0, outcome))
                 /\ EnterCleanup(outcome, apps)
                 /\ UNCHANGED <<apps, backends>>
    /\ UNCHANGED <<fs_vars, run, tasks, document, index, success_count, progress,
                   results, summary, raised, log>>

\* Lines 130-137: best-effort ppt_app.WindowState = 2, skipped when the
\* object has no such attribute.
MinimizePowerPoint ==
    /\ pc = "minimize"
    /\ \E outcome \in {"ok", "no_attribute"} \cup PropertyErrors :
        /\ calls' = IF outcome = "no_attribute" THEN calls
                    ELSE Append(calls,
                        Call("WindowState", Get(apps, PowerPoint), NoName, 2, outcome))
        /\ IF outcome \in {"ok", "no_attribute"} \/ MinimizeCaught(outcome)
           THEN /\ pc' = "init_word"
                /\ UNCHANGED <<pending, cleanup_queue>>
           ELSE EnterCleanup(outcome, apps)
    /\ UNCHANGED <<fs_vars, run, tasks, apps, backends, document, index,
                   success_count, progress, results, summary, raised, log>>

\* A start of Word that swallows the error of CreateObject and goes on to the
\* tasks with the applications it has.
InitWordIgnoringFailure ==
    /\ pc = "init_word"
    /\ IF ~needs_word(tasks)
       THEN /\ pc' = "loop"
            /\ index' = 1
            /\ UNCHANGED <<apps, backends, calls, pending, cleanup_queue>>
       ELSE \E outcome \in {"ok"} \cup CreateObjectErrors :
            IF outcome = "ok"
            THEN /\ backends' = Append(backends, NewBackend(Word))
                 /\ apps' = Set(apps, Word, Len(backends) + 1)
                 /\ calls' = Append(calls,
                        Call("CreateObject", Len(backends) + 1, NoName, 0, outcome))
                 /\ pc' = "hide_word"
                 /\ UNCHANGED <<index, pending, cleanup_queue>>
            ELSE /\ calls' = Append(calls, Call("CreateObject", 0, NoName, 0, outcome))
                 /\ pc' = "loop"
                 /\ index' = 1
                 /\ UNCHANGED <<apps, backends, pending, cleanup_queue>>
    /\ UNCHANGED <<fs_vars, run, tasks, document, success_count, progress,
                   results, summary, raised, log>>

\* Lines 139-142: CreateObject('Word.Application') when needed.
InitWord ==
    /\ pc = "init_word"
    /\ IF ~needs_word(tasks)
       THEN /\ pc' = "loop"
            /\ index' = 1
            /\ UNCHANGED <<apps, backends, calls, pending, cleanup_queue>>
       ELSE \E outcome \in {"ok"} \cup CreateObjectErrors :
            IF outcome = "ok"
            THEN /\ backends' = Append(backends, NewBackend(Word))
                 /\ apps' = Set(apps, Word, Len(backends) + 1)
                 /\ calls' = Append(calls,
                        Call("CreateObject", Len(backends) + 1, NoName, 0, outcome))
                 /\ pc' = "hide_word"
                 /\ UNCHANGED <<index, pending, cleanup_queue>>
            ELSE /\ calls' = Append(calls, Call("CreateObject", 0, NoName, 0, outcome))
                 /\ EnterCleanup(outcome, apps)
                 /\ UNCHANGED <<apps, backends, index>>
    /\ UNCHANGED <<fs_vars, run, tasks, document, success_count, progress,
                   results, summary, raised, log>>

\* Line 143: self.apps['Word.Application'].Visible = False, then the yield.
HideWord ==
    /\ pc = "hide_word"
    /\ \E outcome \in {"ok"} \cup PropertyErrors :
        /\ calls' = Append(calls, Call("Visible", Get(apps, Word), NoName, 0, outcome))
        /\ IF outcome = "ok" \/ HideCaught(outcome)
           THEN /\ pc' = "loop"
                /\ index' = 1
                /\ UNCHANGED <<pending, cleanup_queue>>
           ELSE /\ EnterCleanup(outcome, apps)
                /\ UNCHANGED index
    /\ UNCHANGED <<fs_vars, run, tasks, apps, backends, document, success_count,
                   progress, results, summary, raised, log>>

\* ------------------------------------------------------------------ tasks

\* A task returned True (lines 165-167, 198-200 and 281, 288).
TaskSucceeded(event) ==
    /\ log' = Append(log, LogEntry("info", event, tasks[index].filename, ""))
    /\ results' = Append(results, TRUE)
    /\ success_count' = success_count + 1
    /\ pc' = "advance"
    /\ UNCHANGED <<pending, cleanup_queue>>

\* Variant of TaskFailed: the first failed task ends the loop, and the with
\* block with it.
TaskFailedEndsLoop(exc, caught, event) ==
    IF caught
    THEN /\ log' = Append(log, LogEntry("error", event, tasks[index].filename, ""))
         /\ results' = Append(results, FALSE)
         /\ EnterCleanup(NoException, apps)
         /\ UNCHANGED success_count
    ELSE /\ EnterCleanup(exc, apps)
         /\ UNCHANGED <<log, results, success_count>>

\* A task's call raised exc: the except clause logs it and returns False
\* (lines 168-170, 202-204), or exc leaves the with block.
TaskFailed(exc, caught, event) ==
    IF caught
    THEN /\ log' = Append(log, LogEntry("error", event, tasks[index].filename, ""))
         /\ results' = Append(results, FALSE)
         /\ pc' = "advance"
         /\ UNCHANGED <<success_count, pending, cleanup_queue>>
    ELSE /\ EnterCleanup(exc, apps)
         /\ UNCHANGED <<log, results, success_count>>

\* Lines 278-281 and 161-170: a copy task, shutil.copy2 to outputDir/filename.
CopyFile ==
    /\ pc = "loop"
    /\ index <= Len(tasks)
    /\ tasks[index].type = "copy"
    /\ LET filename == tasks[index].filename IN
       \E outcome \in CopyOutcomes(same_dir) :
        /\ calls' = Append(calls, Call("copy2", 0, filename, 0, outcome))
        /\ IF outcome = "ok"
           THEN /\ output_dir' = [output_dir EXCEPT ![filename] = Written("copy", filename)]
                /\ TaskSucceeded("copied")
           ELSE /\ TaskFailed(outcome, CopyCaught(outcome), "copy_failed")
                /\ UNCHANGED output_dir
    /\ UNCHANGED <<input_dir, same_dir, input_exists, output_exists, run, tasks, apps,
                   backends, document, index, progress, summary, raised>>

\* The application _convert_file uses for a suffix (lines 177-178, 189-190).
AppFor(file_ext) ==
    IF file_ext \in {".ppt", ".pptx"} THEN PowerPoint
    ELSE IF file_ext \in {".doc", ".docx"} THEN Word
    ELSE ""

\* The format code passed to SaveAs (lines 186, 195).
FormatFor(app) == IF app = PowerPoint THEN PPT_FORMAT_PDF ELSE WD_FORMAT_PDF

\* Lines 283-288 and 174-194: a convert task up to and including Open.
ConvertOpen ==
    /\ pc = "loop"
    /\ index <= Len(tasks)
    /\ tasks[index].type = "convert"
    /\ LET filename == tasks[index].filename
           app_name == AppFor(Lower(filename.suffix))
           app == Get(apps, app_name)
       IN  IF app_name = ""
           THEN /\ TaskSucceeded("converted")
                /\ UNCHANGED <<calls, backends, document>>
           ELSE IF app = 0
           THEN /\ TaskFailed("RuntimeError", ConvertCaught("RuntimeError"),
                              "convert_failed")
                /\ UNCHANGED <<calls, backends, document>>
           ELSE \E outcome \in {"ok"} \cup MethodErrors :
                /\ calls' = Append(calls, Call("Open", app, filename, 0, outcome))
                /\ IF outcome = "ok"
                   THEN /\ document' = [backend |-> app, name |-> filename]
                        /\ backends' = [backends EXCEPT
                               ![app].open = backends[app].open \cup {filename}]
                        /\ pc' = "save"
                        /\ UNCHANGED <<log, results, success_count, pending,
                                       cleanup_queue>>
                   ELSE /\ TaskFailed(outcome, ConvertCaught(outcome), "convert_failed")
                        /\ UNCHANGED <<backends, document>>
    /\ UNCHANGED <<fs_vars, run, tasks, apps, index, progress, summary, raised>>

\* Lines 185-186, 195: SaveAs(output_path, format code).
ConvertSaveAs ==
    /\ pc = "save"
    /\ LET filename == tasks[index].filename
           target == PdfName(filename)
           app == document.backend
       IN  \E outcome \in {"ok"} \cup MethodErrors :
            /\ calls' = Append(calls,
                   Call("SaveAs", app, filename, FormatFor(backends[app].app), outcome))
            /\ IF outcome = "ok"
               THEN /\ output_dir' = [output_dir EXCEPT
                           ![target] = Written("convert", filename)]
                    /\ input_dir' =
                           IF same_dir /\ target \notin { e.name : e \in Range(input_dir) }
                           THEN Append(input_dir, [name |-> target, is_file |-> TRUE])
                           ELSE input_dir
                    /\ pc' = "close"
                    /\ UNCHANGED <<log, results, success_count, pending, cleanup_queue,
                                   document>>
               ELSE /\ TaskFailed(outcome, ConvertCaught(outcome), "convert_failed")
                    /\ document' = NoDocument
                    /\ UNCHANGED <<input_dir, output_dir>>
    /\ UNCHANGED <<same_dir, input_exists, output_exists, run, tasks, apps, backends,
                   index, progress, summary, raised>>

\* Lines 187, 196-200: Close(), then the success log entry and return True.
ConvertClose ==
    /\ pc = "close"
    /\ LET filename == tasks[index].filename
           app == document.backend
       IN  \E outcome \in {"ok"} \cup MethodErrors :
            /\ calls' = Append(calls, Call("Close", app, filename, 0, outcome))
            /\ document' = NoDocument
            /\ IF outcome = "ok"
               THEN /\ backends' = [backends EXCEPT
                           ![app].open = backends[app].open \ {filename}]
                    /\ TaskSucceeded("converted")
               ELSE /\ TaskFailed(outcome, ConvertCaught(outcome), "convert_failed")
                    /\ UNCHANGED backends
    /\ UNCHANGED <<fs_vars, run, tasks, apps, index, progress, summary, raised>>

\* A loop that reports progress only for the tasks that succeeded.
AdvanceOnlyAfterSuccess ==
    /\ pc = "advance"
    /\ progress' = IF results[Len(results)] THEN progress + 1 ELSE progress
    /\ index' = index + 1
    /\ pc' = "loop"
    /\ UNCHANGED <<fs_vars, run, tasks, apps, backends, document, success_count,
                   results, summary, pending, raised, cleanup_queue, calls, log>>

\* Lines 290-291: progress.update(advance=1), then the next iteration.
Advance ==
    /\ pc = "advance"
    /\ progress' = progress + 1
    /\ index' = index + 1
    /\ pc' = "loop"
    /\ UNCHANGED <<fs_vars, run, tasks, apps, backends, document, success_count,
                   results, summary, pending, raised, cleanup_queue, calls, log>>

\* Lines 293-312: _display_results(len(tasks), success_count); the with block
\* of process_files then ends and the finally clause runs.
DisplayResults ==
    /\ pc = "loop"
    /\ index > Len(tasks)
    /\ summary' = [shown |-> TRUE, total |-> Len(tasks), succeeded |-> success_count,
                   failed |-> Len(tasks) - success_count]
    /\ EnterCleanup(NoException, apps)
    /\ UNCHANGED <<fs_vars, run, tasks, apps, backends, document, index,
                   success_count, progress, results, raised, calls, log>>

\* ------------------------------------------------------------------ _cleanup_com_applications

\* Lines 153-158: one iteration of the loop over self.apps.items().
QuitApplication ==
    /\ pc = "cleanup"
    /\ cleanup_queue # <<>>
    /\ LET app_name == Head(cleanup_queue).name
           app == Head(cleanup_queue).handle
       IN  IF app = 0
           THEN /\ cleanup_queue' = Tail(cleanup_queue)
                /\ UNCHANGED <<backends, calls, log, pc, raised>>
           ELSE \E outcome \in {"ok"} \cup MethodErrors :
                /\ calls' = Append(calls, Call("Quit", app, NoName, 0, outcome))
                /\ backends' = [backends EXCEPT
                       ![app].quits = backends[app].quits + 1,
                       ![app].running = IF outcome = "ok" THEN FALSE
                                        ELSE backends[app].running,
                       ![app].open = IF outcome = "ok" THEN {} ELSE backends[app].open]
                /\ IF outcome = "ok"
                   THEN /\ cleanup_queue' = Tail(cleanup_queue)
                        /\ UNCHANGED <<log, pc, raised>>
                   ELSE IF QuitCaught(outcome)
                   THEN /\ log' = Append(log,
                               LogEntry("error", "quit_failed", NoName, app_name))
                        /\ cleanup_queue' = Tail(cleanup_queue)
                        /\ UNCHANGED <<pc, raised>>
                   ELSE /\ pc' = "raised"
                        /\ raised' = outcome
                        /\ UNCHANGED <<log, cleanup_queue>>
    /\ UNCHANGED <<fs_vars, run, tasks, apps, document, index, success_count,
                   progress, results, summary, pending>>

\* A cleanup that quits the applications and leaves them in self.apps.
ClearAppsKeepingRegistry ==
    /\ pc = "cleanup"
    /\ cleanup_queue = <<>>
    /\ IF pending = NoException
       THEN /\ pc' = "done"
            /\ UNCHANGED raised
       ELSE /\ pc' = "raised"
            /\ raised' = pending
    /\ UNCHANGED <<fs_vars, run, tasks, apps, backends, document, index,
                   success_count, progress, results, summary, pending,
                   cleanup_queue, calls, log>>

\* Line 159: self.apps.clear(); the finally clause ends and process_files
\* returns, or the pending exception goes on to the caller.
ClearApps ==
    /\ pc = "cleanup"
    /\ cleanup_queue = <<>>
    /\ apps' = <<>>
    /\ IF pending = NoException
       THEN /\ pc' = "done"
            /\ UNCHANGED raised
       ELSE /\ pc' = "raised"
            /\ raised' = pending
    /\ UNCHANGED <<fs_vars, run, tasks, backends, document, index, success_count,
                   progress, results, summary, pending, cleanup_queue, calls, log>>

\* ------------------------------------------------------------------ caller

Returned == pc \in {"done", "nowork", "raised"}

\* The caller calls process_files again on the same FileConverter and the
\* same directories. Application objects that self.apps no longer holds are
\* out of the converter's reach and are dropped from the state.
NextCall ==
    /\ Returned
    /\ run < MaxRuns
    /\ run' = run + 1
    /\ pc' = "idle"
    /\ backends' = IF apps = <<>> THEN <<>> ELSE backends
    /\ tasks' = <<>>
    /\ document' = NoDocument
    /\ index' = 0
    /\ success_count' = 0
    /\ progress' = 0
    /\ results' = <<>>
    /\ summary' = NoSummary
    /\ pending' = NoException
    /\ raised' = NoException
    /\ cleanup_queue' = <<>>
    /\ calls' = <<>>
    /\ log' = <<>>
    /\ UNCHANGED <<fs_vars, apps>>

Next == process_files \/ IdentifyTasks \/ InitPowerPoint \/ MinimizePowerPoint
           \/ InitWord \/ HideWord \/ CopyFile \/ ConvertOpen \/ ConvertSaveAs
           \/ ConvertClose \/ Advance \/ DisplayResults \/ QuitApplication
           \/ ClearApps \/ NextCall

Spec == Init /\ [][Next]_vars

NextPlan == process_files \/ IdentifyTasks

SpecPlan == InitPlan /\ [][NextPlan]_vars

\* ------------------------------------------------------------------ user interrupt

KeyboardInterrupt == "KeyboardInterrupt"

\* The user presses Ctrl-C while process_files runs: Python raises
\* KeyboardInterrupt in the main thread at the next instruction, that is after
\* the call in progress has returned and before the statement that follows
\* it. No except clause of the converter names KeyboardInterrupt (lines 134,
\* 157, 168, 202), so it leaves the function it is raised in: straight to the
\* caller before the with block (line 224) and inside
\* _cleanup_com_applications, through the finally clause of
\* _com_applications (lines 146-148) everywhere else. One interrupt per call
\* of process_files.
Interrupt ==
    /\ pc \in {"planning", "init_powerpoint", "minimize", "init_word", "hide_word",
               "loop", "save", "close", "advance", "cleanup"}
    /\ pending # KeyboardInterrupt
    /\ IF pc \in {"planning", "cleanup"}
       THEN /\ pc' = "raised"
            /\ raised' = KeyboardInterrupt
            /\ UNCHANGED <<pending, cleanup_queue, document>>
       ELSE /\ EnterCleanup(KeyboardInterrupt, apps)
            /\ document' = NoDocument
            /\ UNCHANGED raised
    /\ UNCHANGED <<fs_vars, run, tasks, apps, backends, index, success_count,
                   progress, results, summary, calls, log>>

\* One command-line invocation (lines 378-391): main calls process_files once
\* and leaves the process when KeyboardInterrupt reaches it.
NextInterrupt ==
    \/ process_files \/ IdentifyTasks \/ InitPowerPoint \/ MinimizePowerPoint
    \/ InitWord \/ HideWord \/ CopyFile \/ ConvertOpen \/ ConvertSaveAs
    \/ ConvertClose \/ Advance \/ DisplayResults \/ QuitApplication
    \/ ClearApps \/ Interrupt

SpecInterrupt == Init /\ [][NextInterrupt]_vars

\* ------------------------------------------------------------------ the executor on any registry

\* self.apps holding the applications of `started`, in the order
\* _com_applications stores them.
Registry(started) ==
    LET names == SelectSeq(<< PowerPoint, Word >>, LAMBDA n : n \in started)
    IN  [k \in 1..Len(names) |-> [name |-> names[k], handle |-> k]]

\* _process_tasks_with_progress (lines 249-294) entered with a task list and
\* a registry that holds any subset of the two applications: _convert_file
\* looks the application up with self.apps.get (lines 178, 190) whatever put
\* it there.
InitExecute ==
    /\ input_exists = TRUE
    /\ same_dir = FALSE
    /\ output_exists = TRUE
    /\ input_dir \in OrderedListings(RunUniverse, MaxFiles)
    /\ output_dir = [n \in AllNames |-> Absent]
    /\ run = 1
    /\ pc = "loop"
    /\ tasks = identify_tasks(input_dir, same_dir, output_dir)
    /\ tasks # <<>>
    /\ \E started \in SUBSET AppNames :
           /\ apps = Registry(started)
           /\ backends = [k \in 1..Len(Registry(started)) |->
                             NewBackend(Registry(started)[k].name)]
    /\ document = NoDocument
    /\ index = 1
    /\ success_count = 0
    /\ progress = 0
    /\ results = <<>>
    /\ summary = NoSummary
    /\ pending = NoException
    /\ raised = NoException
    /\ cleanup_queue = <<>>
    /\ calls = <<>>
    /\ log = <<>>

NextExecute ==
    \/ CopyFile \/ ConvertOpen \/ ConvertSaveAs \/ ConvertClose \/ Advance
    \/ DisplayResults \/ QuitApplication \/ ClearApps

SpecExecute == InitExecute /\ [][NextExecute]_vars

\* ------------------------------------------------------------------ observations

CallsWhere(op) == { i \in 1..Len(calls) : calls[i].op = op }
Failed(i) == calls[i].outcome # "ok"

\* The application objects this run created.
StartedHandles == { calls[i].handle : i \in { j \in CallsWhere("CreateObject") : ~Failed(j) } }
QuitCount(h) == Cardinality({ i \in CallsWhere("Quit") : calls[i].handle = h })

\* The planner has just returned: the file system is as it saw it.
Planned == pc \in {"nowork", "init_powerpoint"}

\* The calls task i made, and whether one of them failed.
TaskCalls(i) ==
    { j \in 1..Len(calls) : /\ calls[j].op \in {"copy2", "Open", "SaveAs", "Close"}
                            /\ calls[j].name = tasks[i].filename }
TaskHadFailure(i) == \E j \in TaskCalls(i) : Failed(j)

\* ------------------------------------------------------------------ claims

\* C1: every backend a run started has received at most one Quit call at any
\* time, and exactly one once process_files has returned or raised, whatever
\* the outcomes of the tasks.
C1_QuitExactlyOnce ==
    \A h \in StartedHandles :
        /\ QuitCount(h) <= 1
        /\ Returned => QuitCount(h) = 1

C1_Witness ==
    /\ pc = "done"
    /\ Cardinality(StartedHandles) = 2
    /\ TRUE \in Range(results)
    /\ FALSE \in Range(results)

\* C2: once the task loop is entered no exception leaves it; each task's
\* result is False exactly when one of its own calls failed; when the summary
\* is displayed every task has been executed, failed is the number of tasks
\* with a failing call and succeeded is the number of the others.
C2_FailuresIsolated ==
    /\ index >= 1 => pending = NoException /\ raised = NoException
    /\ \A i \in 1..Len(results) : results[i] = ~TaskHadFailure(i)
    /\ summary.shown =>
        /\ Len(results) = Len(tasks)
        /\ \A i \in 1..Len(tasks) : TaskCalls(i) # {}
        /\ summary.failed = Cardinality({ i \in 1..Len(tasks) : TaskHadFailure(i) })
        /\ summary.succeeded = Cardinality({ i \in 1..Len(tasks) : ~TaskHadFailure(i) })

C2_Witness ==
    /\ pc = "done"
    /\ Len(results) = 3
    /\ results[1] = FALSE
    /\ results[2] = FALSE
    /\ results[3] = TRUE
    /\ \E i \in CallsWhere("SaveAs") : Failed(i)
    /\ \E i \in CallsWhere("copy2") : Failed(i)
    /\ summary.failed = 2

\* C3: no two tasks of the plan write the same output path.
C3_DistinctOutputs ==
    \A i, j \in 1..Len(tasks) : i # j => OutputOf(tasks[i]) # OutputOf(tasks[j])

\* Regular files of the input directory by kind of suffix.
IsPdfFile(entry) == entry.is_file /\ Lower(entry.name.suffix) = ".pdf"
IsConvertibleFile(entry) ==
    entry.is_file /\ Lower(entry.name.suffix) \in {".ppt", ".pptx", ".doc", ".docx"}

\* Every file the planner looks at has its target in the output directory.
EveryTargetPresent ==
    \A e \in Range(input_dir) :
        /\ IsPdfFile(e) => Exists(output_dir, e.name)
        /\ IsConvertibleFile(e) => Exists(output_dir, PdfName(e.name))

CopiesOf(entries) == [i \in 1..Len(entries) |-> Task("copy", entries[i].name)]
SkipEntries(name) == { i \in 1..Len(log) : log[i].event = "skip" /\ log[i].name = name }

Example == RunUniverse

OnlyDExists ==
    \A n \in DOMAIN output_dir : Exists(output_dir, n) <=> n = FileName("d", ".pdf")

C6_ConvertIffPdfAbsent ==
    Planned =>
        \A e \in Range(input_dir) :
            LET converts == { i \in 1..Len(tasks) : tasks[i] = Task("convert", e.name) }
                any == { i \in 1..Len(tasks) : tasks[i].filename = e.name }
            IN  /\ IsConvertibleFile(e) =>
                    IF Exists(output_dir, PdfName(e.name))
                    THEN any = {} /\ Cardinality(SkipEntries(e.name)) = 1
                    ELSE Cardinality(converts) = 1 /\ any = converts
                         /\ SkipEntries(e.name) = {}
                /\ (~IsConvertibleFile(e) /\ ~IsPdfFile(e)) =>
                    any = {} /\ SkipEntries(e.name) = {}

C6_Witness ==
    /\ Planned
    /\ input_dir = << SubDirectory("s", ".pptx"), RegularFile("b", ".DOC"),
                      RegularFile("a", ".ppt"), RegularFile("n", ".txt") >>
    /\ Exists(output_dir, FileName("a", ".pdf"))
    /\ tasks = << Task("convert", FileName("b", ".DOC")) >>
    /\ Len(log) = 1

\* The applications the plan's Convert tasks need.
RequiredFamilies ==
    { app \in AppNames :
        \E i \in 1..Len(tasks) :
            /\ tasks[i].type = "convert"
            /\ Lower(tasks[i].filename.suffix) \in
                   (IF app = PowerPoint THEN {".ppt", ".pptx"} ELSE {".doc", ".docx"}) }

StartedFor(app) == { h \in StartedHandles : backends[h].app = app }

\* C7: the applications started are among those the plan's Convert tasks
\* need, at most one object each; once the task loop is entered each needed
\* application has been started exactly once and none is started after a
\* task call; a plan without Convert tasks starts and quits nothing.
C7_OnlyRequiredBackends ==
    /\ \A app \in AppNames :
        /\ Cardinality(StartedFor(app)) <= 1
        /\ StartedFor(app) # {} => app \in RequiredFamilies
    /\ { backends[h].app : h \in 1..Len(backends) } \subseteq RequiredFamilies
    /\ index >= 1 => \A app \in RequiredFamilies :
                        Cardinality(StartedFor(app)) = 1
    /\ \A i \in CallsWhere("CreateObject") :
        \A j \in 1..Len(calls) :
            calls[j].op \in {"copy2", "Open", "SaveAs", "Close"} => i < j
    /\ (\A i \in 1..Len(tasks) : tasks[i].type = "copy") =>
        /\ backends = <<>>
        /\ CallsWhere("CreateObject") = {}
        /\ CallsWhere("Quit") = {}

C7_Witness ==
    /\ pc = "loop"
    /\ index = 1
    /\ results = <<>>
    /\ RequiredFamilies = {PowerPoint}
    /\ Cardinality(StartedHandles) = 1
    /\ \E i \in 1..Len(tasks) : tasks[i].type = "copy"

\* C8: after a failing Quit the cleanup goes on: one error entry is logged per
\* failing Quit, every started application has received its Quit when
\* process_files ends, the failure is not raised to the caller, and the
\* summary already displayed keeps the counts of the task results.
C8_QuitFailureIsolated ==
    LET failed_quits == { i \in CallsWhere("Quit") : Failed(i) }
        quit_errors == { i \in 1..Len(log) :
                            log[i].level = "error" /\ log[i].event = "quit_failed" }
    IN  failed_quits # {} =>
            /\ pc \in {"cleanup", "done", "raised"}
            /\ Cardinality(quit_errors) = Cardinality(failed_quits)
            /\ \A i \in failed_quits :
                \E k \in quit_errors : log[k].app = backends[calls[i].handle].app
            /\ Returned => \A h \in StartedHandles : QuitCount(h) = 1
            /\ (Returned /\ pending = NoException) => pc = "done" /\ raised = NoException
            /\ pc = "raised" => raised = pending
            /\ summary.shown =>
                /\ summary.total = Len(tasks)
                /\ summary.succeeded = Cardinality({ i \in 1..Len(results) : results[i] })
                /\ summary.failed = Cardinality({ i \in 1..Len(results) : ~results[i] })

C8_Witness ==
    /\ pc = "done"
    /\ Cardinality(StartedHandles) = 2
    /\ \E i, j \in CallsWhere("Quit") :
        /\ i < j
        /\ Failed(i)
        /\ calls[i].handle # calls[j].handle
    /\ summary.shown

\* C9: every document a Convert task opened has had a Close call by the time
\* the task has returned, also when SaveAs failed.
C9_OpenedDocumentClosed ==
    \A i \in CallsWhere("Open") :
        (~Failed(i) /\ document.name # calls[i].name) =>
            \E j \in CallsWhere("Close") :
                /\ j > i
                /\ calls[j].name = calls[i].name
                /\ calls[j].handle = calls[i].handle

\* C10: a failure of the cosmetic setting made right after CreateObject
\* (WindowState for PowerPoint, Visible for Word) is swallowed: no exception
\* is pending after it, startup goes on and the application stays registered.
C10_CosmeticFailureSwallowed ==
    LET n == Len(calls)
    IN  (n > 0 /\ calls[n].op \in {"WindowState", "Visible"} /\ Failed(n)) =>
            /\ pending = NoException
            /\ pc \in {"init_word", "loop"}
            /\ \E k \in 1..Len(apps) : apps[k].handle = calls[n].handle

\* The place of a file name in the plan, and the calls of one kind a task made.
TaskIndex(name) == CHOOSE i \in 1..Len(tasks) : tasks[i].filename = name
TaskOps == {"copy2", "Open", "SaveAs", "Close"}
TaskCallsOf(i, ops) == { j \in TaskCalls(i) : calls[j].op \in ops }

\* C11: the planned tasks are executed one at a time in planned order, each
\* exactly once; the progress counter advances by one after each task whatever
\* its outcome; when the summary is emitted the counter equals the number of
\* planned tasks, total is that number, succeeded + failed = total and both
\* are non-negative.
C11_SequentialProgress ==
    /\ Len(results) <= Len(tasks)
    /\ progress = IF pc = "advance" THEN Len(results) - 1 ELSE Len(results)
    /\ pc \in {"loop", "save", "close", "advance"} => index = progress + 1
    /\ \A j \in 1..Len(calls) :
           calls[j].op \in TaskOps =>
               /\ \E i \in 1..Len(tasks) : tasks[i].filename = calls[j].name
               /\ TaskIndex(calls[j].name) <= Len(results) + 1
               /\ \A k \in 1..(j - 1) :
                      calls[k].op \in TaskOps =>
                          TaskIndex(calls[k].name) <= TaskIndex(calls[j].name)
    /\ \A i \in 1..Len(tasks) :
           /\ Cardinality(TaskCallsOf(i, {"copy2", "Open"})) <= 1
           /\ Cardinality(TaskCallsOf(i, {"SaveAs"})) <= 1
           /\ Cardinality(TaskCallsOf(i, {"Close"})) <= 1
           /\ i <= Len(results) => Cardinality(TaskCallsOf(i, {"copy2", "Open"})) = 1
           /\ tasks[i].type = "copy" => TaskCallsOf(i, {"Open", "SaveAs", "Close"}) = {}
           /\ tasks[i].type = "convert" => TaskCallsOf(i, {"copy2"}) = {}
    /\ summary.shown =>
           /\ progress = Len(tasks)
           /\ summary.total = Len(tasks)
           /\ summary.succeeded + summary.failed = summary.total
           /\ summary.succeeded >= 0
           /\ summary.failed >= 0
           /\ summary.succeeded = Cardinality({ i \in 1..Len(results) : results[i] })

\* C11 witness: a run of four tasks, two of which failed, has shown its summary.
C11_Witness ==
    /\ pc = "done"
    /\ Len(tasks) = 4
    /\ progress = 4
    /\ summary.shown
    /\ summary.failed = 2
    /\ summary.succeeded = 2

\* The state of the run's state machine at each position of process_files.
\* "Aborting" and "Raised" are the positions at which an exception is on its
\* way to the caller.
Phase(position, exc) ==
    CASE position = "idle" -> "Idle"
      [] position = "planning" -> "Planning"
      [] position = "nowork" -> "NoWork"
      [] position \in {"init_powerpoint", "minimize", "init_word", "hide_word",
                       "loop", "save", "close", "advance"} -> "Executing"
      [] position = "cleanup" -> IF exc = NoException THEN "Done" ELSE "Aborting"
      [] position = "done" -> "Done"
      [] position = "raised" -> "Raised"

\* A call that starts a backend has failed in this run.
StartupFailed ==
    \E j \in CallsWhere("CreateObject") \cup CallsWhere("Visible") : Failed(j)

\* C12 as stated: a run whose plan is not empty always reaches Done, that is
\* process_files returns normally after the summary.
C12_NonEmptyPlanReachesDone ==
    (Returned /\ tasks # <<>>) => (pc = "done" /\ summary.shown)

\* The steps of the state machine of a run.
C12_Step ==
    LET from == Phase(pc, pending)
        to == Phase(pc', pending')
    IN  \/ from = to
        \/ from = "Idle" /\ to = "Planning" /\ input_exists
        \/ from = "Idle" /\ to = "Raised" /\ ~input_exists
        \/ from = "Planning" /\ to = "NoWork" /\ tasks' = <<>>
        \/ from = "Planning" /\ to = "Executing" /\ tasks' # <<>>
        \/ from = "Executing" /\ to = "Done"
        \/ from = "Executing" /\ to = "Aborting" /\ StartupFailed'
        \/ from = "Aborting" /\ to = "Raised"
        \/ from \in {"NoWork", "Done", "Raised"} /\ to = "Idle" /\ run' = run + 1

\* C12 (amended): a run on a valid input directory goes Idle -> Planning ->
\* (NoWork | Executing). An empty plan goes from Planning to NoWork and stops
\* there with no backend started, no Quit call and no task executed. A
\* non-empty plan enters Executing, never NoWork, never stops before
\* process_files ends, and ends either in Done (every task executed, summary
\* emitted) or, when a backend fails to start, by raising to the caller with
\* no task executed and no summary.
C12_StateMachine ==
    /\ [][C12_Step]_vars
    /\ [](/\ pc = "nowork" =>
                /\ tasks = <<>>
                /\ calls = <<>>
                /\ backends = <<>>
                /\ apps = <<>>
                /\ results = <<>>
                /\ ~summary.shown
          /\ tasks # <<>> => pc # "nowork"
          /\ (tasks = <<>> /\ pc # "nowork") => pc \in {"idle", "planning", "raised"}
          /\ Phase(pc, pending) = "Done" =>
                /\ tasks # <<>>
                /\ summary.shown
                /\ Len(results) = Len(tasks)
                /\ raised = NoException
          /\ (tasks # <<>> /\ Phase(pc, pending) \in {"Aborting", "Raised"}) =>
                /\ StartupFailed
                /\ results = <<>>
                /\ CallsWhere("copy2") \cup CallsWhere("Open") = {}
                /\ ~summary.shown
          /\ Returned \/ ENABLED Next)

\* C12 witness: a run with a non-empty plan has ended by raising the error of
\* a failed CreateObject.
C12_Witness ==
    /\ pc = "raised"
    /\ tasks # <<>>
    /\ raised \in CreateObjectErrors
    /\ \E j \in CallsWhere("CreateObject") : Failed(j)

\* C13: when starting a backend fails, the run aborts without executing any
\* task, and every backend already started still receives exactly one Quit
\* call before process_files raises the startup error.
C13_StartupFailureAborts ==
    (\E j \in CallsWhere("CreateObject") : Failed(j)) =>
        /\ pc \in {"cleanup", "raised"}
        /\ pending \in CreateObjectErrors
        /\ index = 0
        /\ results = <<>>
        /\ \A j \in 1..Len(calls) : calls[j].op \notin TaskOps
        /\ ~summary.shown
        /\ \A h \in StartedHandles : QuitCount(h) <= 1
        /\ pc = "raised" =>
               /\ raised = pending
               /\ \A h \in StartedHandles : QuitCount(h) = 1

\* C13 witness: Word failed to start after PowerPoint had started; PowerPoint
\* has been quit once and process_files has raised.
C13_Witness ==
    /\ pc = "raised"
    /\ \E j \in CallsWhere("CreateObject") : Failed(j)
    /\ \E h \in StartedHandles : backends[h].app = PowerPoint /\ QuitCount(h) = 1
    /\ \E i \in 1..Len(tasks) : tasks[i].type = "convert"

\* C14: when the input directory does not exist or is not a directory,
\* process_files fails with the invalid-input error before anything else: no
\* output directory is created, no plan is computed, no backend is started and
\* no task is executed.
C14_InvalidInputFailsFirst ==
    (~input_exists /\ pc # "idle") =>
        /\ pc = "raised"
        /\ raised = "ValueError"
        /\ ~output_exists
        /\ tasks = <<>>
        /\ log = <<>>
        /\ apps = <<>>
        /\ backends = <<>>
        /\ calls = <<>>
        /\ results = <<>>
        /\ ~summary.shown

\* C14 witness: process_files has raised ValueError on a missing input
\* directory, a second time on the same converter.
C14_Witness ==
    /\ ~input_exists
    /\ pc = "raised"
    /\ raised = "ValueError"
    /\ run = 2

\* C15: when the input and output directories are the same, the plan has no
\* Copy task for any .pdf file, so no file is copied onto itself; Convert
\* tasks are planned as usual, one for each convertible file whose PDF is
\* absent, in listing order.
C15_NoSelfCopy ==
    (same_dir /\ input_exists /\ pc \notin {"idle", "planning"}) =>
        /\ \A i \in 1..Len(tasks) : tasks[i].type = "convert"
        /\ CallsWhere("copy2") = {}
        /\ \A n \in DOMAIN output_dir : output_dir[n].kind # "copy"
        /\ \A e \in Range(input_dir) :
               (IsConvertibleFile(e) /\ Planned) =>
                   Cardinality({ i \in 1..Len(tasks) :
                                   tasks[i] = Task("convert", e.name) })
                       = IF Exists(output_dir, PdfName(e.name)) THEN 0 ELSE 1
        /\ \A i, k \in 1..Len(tasks) :
               i < k =>
                   \E m, n \in 1..Len(input_dir) :
                       /\ m < n
                       /\ input_dir[m].name = tasks[i].filename
                       /\ input_dir[n].name = tasks[k].filename

\* C15 witness: one directory holding two PDFs and two documents has been
\* planned: two Convert tasks and no Copy task.
C15_Witness ==
    /\ same_dir
    /\ pc = "init_powerpoint"
    /\ Len(input_dir) = 4
    /\ tasks = << Task("convert", FileName("a", ".pptx")),
                  Task("convert", FileName("b", ".docx")) >>

\* C16: the final summary is emitted only after every started backend has
\* been released: whenever the summary has been shown, each backend the run
\* started has already received its Quit call.
C16_SummaryAfterRelease ==
    summary.shown => \A h \in StartedHandles : QuitCount(h) = 1

\* The user's interrupt has been taken in the loop over the tasks.
Interrupted == pending = KeyboardInterrupt /\ index >= 1

\* C17: a user interrupt is honoured only at a boundary between tasks: once
\* the interrupt has been taken, every task that made a call has run to its
\* result (the document it opened went on to SaveAs), no further task starts,
\* and when process_files has ended every started backend has been quit
\* exactly once.
C17_InterruptOnlyBetweenTasks ==
    Interrupted =>
        /\ \A i \in 1..Len(tasks) : TaskCalls(i) # {} => i <= Len(results)
        /\ \A j \in CallsWhere("Open") :
               ~Failed(j) => \E k \in CallsWhere("SaveAs") :
                                 k > j /\ calls[k].name = calls[j].name
        /\ Returned => \A h \in StartedHandles : QuitCount(h) = 1

\* The task at hand is a Convert task whose application is not in self.apps.
BackendAbsent ==
    /\ pc = "loop"
    /\ index <= Len(tasks)
    /\ tasks[index].type = "convert"
    /\ Get(apps, AppFor(Lower(tasks[index].filename.suffix))) = 0

\* C18: a Convert task whose backend is absent from the registry fails at
\* once: no Open, SaveAs or Close call is made, an error is logged for the
\* file, the task counts as one failed task, no exception leaves the task,
\* and the registry and the backends are left as they were; the summary counts
\* every such task as failed.
C18_AbsentBackendFailsTask ==
    /\ [][BackendAbsent =>
             /\ calls' = calls
             /\ apps' = apps
             /\ backends' = backends
             /\ output_dir' = output_dir
             /\ results' = Append(results, FALSE)
             /\ success_count' = success_count
             /\ log' = Append(log, LogEntry("error", "convert_failed",
                                            tasks[index].filename, ""))
             /\ pending' = NoException
             /\ pc' = "advance"]_vars
    /\ [](summary.shown =>
             /\ summary.failed = Cardinality({ i \in 1..Len(results) : ~results[i] })
             /\ \A i \in 1..Len(tasks) :
                    (/\ tasks[i].type = "convert"
                     /\ Get(apps, AppFor(Lower(tasks[i].filename.suffix))) = 0
                     /\ pc = "cleanup")
                        => ~results[i] /\ TaskCalls(i) = {})

\* C18 witness: a.pptx has just failed for want of PowerPoint while Word is in
\* the registry, untouched.
C18_Witness ==
    /\ pc = "advance"
    /\ tasks[index] = Task("convert", FileName("a", ".pptx"))
    /\ Get(apps, PowerPoint) = 0
    /\ Get(apps, Word) # 0
    /\ results[index] = FALSE
    /\ TaskCalls(index) = {}
    /\ backends[Get(apps, Word)].quits = 0

\* Calls made on a document or an application on behalf of a task.
DocumentCalls == CallsWhere("Open") \cup CallsWhere("SaveAs") \cup CallsWhere("Close")

\* No document call follows a Quit call.
NoCallAfterQuit ==
    \A j \in DocumentCalls \cup CallsWhere("copy2") :
        \A k \in CallsWhere("Quit") : j < k

\* C19 as stated: in a run that is not interrupted, no backend receives a Quit
\* call before the last planned task has finished, and no task issues an
\* open, save or close call to a backend that has already been quit.
C19_NoQuitBeforeLastTask ==
    /\ CallsWhere("Quit") # {} => (tasks # <<>> /\ Len(results) = Len(tasks))
    /\ NoCallAfterQuit

\* C19 (amended): in a run that is not interrupted and in which every required
\* backend has started, no backend receives a Quit call before the last
\* planned task has finished; when a backend fails to start, the backends
\* already started are quit without any task having been executed. In both
\* cases no task issues an open, save or close call to a backend that has
\* been quit.
C19_QuitAfterTasksOrStartupFailure ==
    /\ CallsWhere("Quit") # {} =>
           /\ tasks # <<>>
           /\ IF StartupFailed
              THEN results = <<>> /\ DocumentCalls \cup CallsWhere("copy2") = {}
              ELSE Len(results) = Len(tasks) /\ summary.shown
    /\ NoCallAfterQuit
    /\ \A j \in DocumentCalls :
           /\ calls[j].handle \in StartedHandles
           /\ backends[calls[j].handle].run = run
    /\ pc \in {"loop", "save", "close", "advance"} =>
           \A k \in 1..Len(apps) :
               /\ backends[apps[k].handle].running
               /\ backends[apps[k].handle].quits = 0

\* C19 witness: both backends have been quit after the fourth of four tasks.
C19_Witness ==
    /\ Cardinality(CallsWhere("Quit")) = 2
    /\ Len(tasks) = 4
    /\ Len(results) = 4
    /\ ~StartupFailed
    /\ Cardinality(DocumentCalls) >= 2

\* C20: whenever process_files has returned or raised, self.apps is empty, so
\* the next call starts from an empty registry: every handle in self.apps was
\* created by the current call, no handle receives a second Quit, and the
\* converter holds at most one handle per family at any time.
C20_RegistryEmptyBetweenRuns ==
    /\ Returned => apps = <<>>
    /\ pc \in {"idle", "planning"} => (apps = <<>> /\ backends = <<>>)
    /\ \A k \in 1..Len(apps) :
           /\ apps[k].handle \in 1..Len(backends)
           /\ apps[k].handle \in StartedHandles
           /\ backends[apps[k].handle].app = apps[k].name
           /\ backends[apps[k].handle].run = run
    /\ \A h \in 1..Len(backends) :
           /\ backends[h].run = run
           /\ backends[h].quits <= 1
           /\ backends[h].quits = QuitCount(h)
    /\ \A app \in AppNames :
           /\ Cardinality({ h \in 1..Len(backends) : backends[h].app = app }) <= 1
           /\ Cardinality({ k \in 1..Len(apps) : apps[k].name = app }) <= 1

\* C20 witness: a second call on the same converter has started an
\* application of its own, its Quit has failed, and the call has ended with an
\* empty registry.
C20_Witness ==
    /\ run = 2
    /\ Returned
    /\ apps = <<>>
    /\ StartedHandles # {}
    /\ \E j \in CallsWhere("Quit") : Failed(j)

====
